---- MODULE Spec2Model ----
(***************************************************************************)
(* The veb daemon (src/src/daemon.ts) and its BrowserManager               *)
(* (src/src/browser.ts) as a state machine.                                *)
(*                                                                         *)
(* Two specifications share the variables:                                 *)
(*   SpecStart  several processes run startDaemon against one socket path  *)
(*              and one pid file (single-instance enforcement);            *)
(*   Spec       one daemon, already listening, serves its connections,     *)
(*              signals and the close command's grace timer.               *)
(*                                                                         *)
(* Node runs a process's JavaScript on one thread: a handler runs without  *)
(* interruption up to its next await on real I/O, and there any other      *)
(* event of the process may run.  An action of Spec is therefore one event *)
(* (a data chunk, a signal, the timer, the completion of one awaited       *)
(* Playwright call) together with all the code that runs up to the next    *)
(* such await.  Separate processes interleave at system calls.             *)
(***************************************************************************)
EXTENDS Integers, Sequences, FiniteSets, TLC

\* ------------------------------------------------------------------ bounds
NProcs == 3       \* processes that may run startDaemon
NConns == 2       \* client connections of the daemon
MaxRejects == 1   \* Playwright calls the environment lets fail on its own

\* --------------------------------------------------------------- constants
Null == 0         \* null (browser.ts), an absent file
D == 1            \* process.pid of the daemon that Spec observes

Procs == 1..NProcs
Conns == 1..NConns

VARIABLES
  \* processes and the two files in os.tmpdir()
  ppc,           \* ppc[p]: where process p is in startDaemon / its life
  sockFile,      \* SOCKET_PATH: Null, or the process whose bind created it
  pidFile,       \* PID_FILE: Null, or the pid written in it
  touched,       \* touched[p]: p's start attempt removed or overwrote a file
                 \* that then belonged to another live, listening daemon
  \* the daemon D
  state,         \* BrowserManager.state: browser, context, page
  live,          \* browsers launched and not yet closed
  launches,      \* browsers launched so far (the next handle is launches+1)
  shuttingDown,  \* the flag of daemon.ts:64
  timer,         \* the close command's grace timer: "none", "armed"
  tasks,         \* suspended async calls: data handlers and shutdown
  \* connections
  stream,        \* stream[c]: the bytes client c sends in all
  sent,          \* sent[c]: how many of them have arrived in data events
  buffer,        \* the handler's buffer of daemon.ts:67
  decoded,       \* the lines handed to parseCommand, in order
  written,       \* the responses written to the socket, in order
  \* history
  autoLaunches,  \* calls of browser.launch at daemon.ts:91
  armed,         \* grace timers scheduled
  sigRuns,       \* runs of shutdown() that got past its guard
  sigIgnored,    \* a signal found the shutdown under way and returned
  cleanups,      \* runs of server.close(); cleanupSocket(); process.exit(0)
  trigger,       \* the close command that scheduled the timer
  log,           \* the steps of the shutdown, each at its first occurrence
  begun,         \* close commands whose execution began
  rejects,       \* Playwright calls that failed on the environment's choice
  split,         \* a data event has ended inside a frame
  sockErr,       \* connections whose socket has emitted 'error'
  \* a client process that asks isDaemonRunning()
  query          \* where the call is, what it read, what it returned

procVars == <<ppc, sockFile, pidFile, touched>>
daemonVars == <<state, live, launches, shuttingDown, timer, tasks>>
connVars == <<stream, sent, buffer, decoded, written>>
histVars == <<autoLaunches, armed, sigRuns, sigIgnored, cleanups, trigger, log,
              begun, rejects, split, sockErr>>
vars == <<procVars, daemonVars, connVars, histVars, query>>

\* ------------------------------------------------- files and startDaemon

\* Another process acts while a call of isDaemonRunning() is under way or
\* has returned: what the call saw is no longer what is there.
Disturb == query' = [query EXCEPT !.alone = FALSE]

\* Whether file content f (a pid, or Null) names a daemon that is listening.
OwnedByListener(f) == f # Null /\ ppc[f] = "listening"

\* Whether p, by setting the two files to s and m, removes or overwrites one
\* that belongs to another listening daemon.
Clobbers(p, s, m) ==
  \/ OwnedByListener(sockFile) /\ sockFile # p /\ s # sockFile
  \/ OwnedByListener(pidFile) /\ pidFile # p /\ m # pidFile

\* cleanupSocket(): unlink both files if they exist.
cleanupSocket(files) == [files EXCEPT !.sock = Null, !.pid = Null]

Files == [sock |-> sockFile, pid |-> pidFile]

\* startDaemon, line 61: "Clean up any stale socket".
StartCleanup(p) ==
  /\ ppc[p] = "init"
  /\ LET f == cleanupSocket(Files) IN
       /\ sockFile' = f.sock
       /\ pidFile' = f.pid
       /\ touched' = [touched EXCEPT ![p] = @ \/ Clobbers(p, f.sock, f.pid)]
  /\ ppc' = [ppc EXCEPT ![p] = "writePid"]
  /\ Disturb
  /\ UNCHANGED <<daemonVars, connVars, histVars>>

\* startDaemon, line 125: the pid file is written before listening.
WritePidFile(p) ==
  /\ ppc[p] = "writePid"
  /\ pidFile' = p
  /\ touched' = [touched EXCEPT ![p] = @ \/ Clobbers(p, sockFile, p)]
  /\ ppc' = [ppc EXCEPT ![p] = "listen"]
  /\ Disturb
  /\ UNCHANGED <<sockFile, daemonVars, connVars, histVars>>

\* bind(2) on a path: EADDRINUSE exactly when a file exists at the path.
BindSucceeds(path) == path = Null

\* startDaemon, line 127: server.listen(SOCKET_PATH).  A failed bind is
\* reported by the server's 'error' event.
Listen(p) ==
  /\ ppc[p] = "listen"
  /\ IF BindSucceeds(sockFile)
       THEN sockFile' = p /\ ppc' = [ppc EXCEPT ![p] = "listening"]
       ELSE sockFile' = sockFile /\ ppc' = [ppc EXCEPT ![p] = "bindFailed"]
  /\ Disturb
  /\ UNCHANGED <<pidFile, touched, daemonVars, connVars, histVars>>

\* startDaemon, lines 131-135: the server's 'error' handler.
ServerError(p) ==
  /\ ppc[p] = "bindFailed"
  /\ LET f == cleanupSocket(Files) IN
       /\ sockFile' = f.sock
       /\ pidFile' = f.pid
       /\ touched' = [touched EXCEPT ![p] = @ \/ Clobbers(p, f.sock, f.pid)]
  /\ ppc' = [ppc EXCEPT ![p] = "exit1"]
  /\ Disturb
  /\ UNCHANGED <<daemonVars, connVars, histVars>>

\* The daemon process is killed out-of-band: its files stay behind.
Kill(p) ==
  /\ ppc[p] = "listening"
  /\ ppc' = [ppc EXCEPT ![p] = "killed"]
  /\ Disturb
  /\ UNCHANGED <<sockFile, pidFile, touched, daemonVars, connVars, histVars>>

\* ------------------------------------------------------ isDaemonRunning

\* process.kill(pid, 0) throws when no process has the pid.
ProcessExistsAlways(pid) == TRUE

\* Whether a process with the pid exists: one that has started and has
\* neither exited nor been killed.
ProcessExists(pid) ==
  ppc[pid] \in {"writePid", "listen", "listening", "bindFailed"}

\* What the Instance Marker says when isDaemonRunning() is called: whether
\* the process whose pid it records has ended, by an exit or by a kill.
MarkerStatus ==
  IF pidFile = Null THEN "absent"
  ELSE IF ppc[pidFile] \in {"exit0", "exit1", "killed"} THEN "stale"
  ELSE "live"

NoQuery ==
  [pc |-> "idle", pid |-> Null, pre |-> "none", ret |-> "none",
   alone |-> FALSE, files |-> [sock |-> Null, pid |-> Null]]

QueryFrame == UNCHANGED <<ppc, touched, daemonVars, connVars, histVars>>

\* Line 30: if (!fs.existsSync(PID_FILE)) return false
QExists ==
  /\ query.pc = "idle"
  /\ query' = [NoQuery EXCEPT !.pre = MarkerStatus,
                              !.alone = TRUE,
                              !.files = Files,
                              !.pc = IF pidFile = Null THEN "done" ELSE "read",
                              !.ret = IF pidFile = Null THEN "false" ELSE "none"]
  /\ UNCHANGED <<sockFile, pidFile>>
  /\ QueryFrame

\* Line 33: the pid is read; a marker removed meanwhile makes readFileSync
\* throw, which the catch of line 37 takes.
QRead ==
  /\ query.pc = "read"
  /\ query' = [query EXCEPT !.pid = pidFile,
                            !.pc = IF pidFile = Null THEN "cleanup" ELSE "probe"]
  /\ UNCHANGED <<sockFile, pidFile>>
  /\ QueryFrame

\* Lines 35-36: process.kill(pid, 0); return true
QProbe ==
  /\ query.pc = "probe"
  /\ query' = IF ProcessExists(query.pid)
                THEN [query EXCEPT !.pc = "done", !.ret = "true"]
                ELSE [query EXCEPT !.pc = "cleanup"]
  /\ UNCHANGED <<sockFile, pidFile>>
  /\ QueryFrame

\* Lines 37-40: cleanupSocket(); return false
QCleanup ==
  /\ query.pc = "cleanup"
  /\ LET f == cleanupSocket(Files) IN
       /\ sockFile' = f.sock
       /\ pidFile' = f.pid
  /\ query' = [query EXCEPT !.pc = "done", !.ret = "false"]
  /\ QueryFrame

\* The client asks again.
QCall ==
  /\ query.pc = "done"
  /\ query' = NoQuery
  /\ UNCHANGED <<sockFile, pidFile>>
  /\ QueryFrame

NoBrowser == [browser |-> Null, context |-> Null, page |-> Null]

DaemonInit ==
  /\ state = NoBrowser
  /\ live = {}
  /\ launches = 0
  /\ shuttingDown = FALSE
  /\ timer = "none"
  /\ tasks = {}
  /\ sent = [c \in Conns |-> 0]
  /\ buffer = [c \in Conns |-> <<>>]
  /\ decoded = [c \in Conns |-> <<>>]
  /\ written = [c \in Conns |-> <<>>]
  /\ autoLaunches = 0
  /\ armed = 0
  /\ sigRuns = 0
  /\ sigIgnored = FALSE
  /\ cleanups = 0
  /\ trigger = <<>>
  /\ log = <<>>
  /\ begun = {}
  /\ rejects = 0
  /\ split = FALSE
  /\ sockErr = {}

\* No process has started; the files do not exist; no client sends anything.
InitStart ==
  /\ ppc = [p \in Procs |-> "init"]
  /\ sockFile = Null
  /\ pidFile = Null
  /\ touched = [p \in Procs |-> FALSE]
  /\ stream = [c \in Conns |-> <<>>]
  /\ DaemonInit
  /\ query = NoQuery

NextStart ==
  \/ \E p \in Procs :
       \/ StartCleanup(p)
       \/ WritePidFile(p)
       \/ Listen(p)
       \/ ServerError(p)
       \/ Kill(p)
  \/ QExists
  \/ QRead
  \/ QProbe
  \/ QCleanup
  \/ QCall

SpecStart == InitStart /\ [][NextStart]_vars

\* ------------------------------------------------------------ wire codec

IsSpace(ch) == ch = " "

RECURSIVE TrimLeft(_)
TrimLeft(s) == IF s # <<>> /\ IsSpace(Head(s)) THEN TrimLeft(Tail(s)) ELSE s

RECURSIVE TrimRight(_)
TrimRight(s) ==
  IF s # <<>> /\ IsSpace(s[Len(s)])
    THEN TrimRight(SubSeq(s, 1, Len(s) - 1))
    ELSE s

\* String.prototype.trim
trim(s) == TrimRight(TrimLeft(s))

\* buffer.includes('\n')
includesNewline(s) == \E k \in 1..Len(s) : s[k] = "\n"

\* buffer.indexOf('\n'), for a buffer that includes one
indexOfNewline(s) ==
  CHOOSE k \in 1..Len(s) : s[k] = "\n" /\ \A j \in 1..(k - 1) : s[j] # "\n"

\* A request frame is an action letter and an id letter, as
\* {"id":"1","action":"navigate"} is an action and an id.
ActionOf(ch) ==
  IF ch = "n" THEN "navigate" ELSE IF ch = "l" THEN "launch" ELSE "close"

\* parseCommand (protocol.ts): surrounding whitespace is insignificant;
\* anything but a well-formed frame with a known action and an id fails.
parseCommand(line) ==
  LET t == trim(line) IN
    IF Len(t) = 2 /\ t[1] \in {"n", "l", "c"} /\ t[2] \in {"1", "2", "3"}
      THEN [success |-> TRUE, id |-> t[2], action |-> ActionOf(t[1])]
      ELSE [success |-> FALSE, id |-> "unknown", action |-> "none"]

\* errorResponse(id, message), as written for line number i of a connection
errorResponse(i, id) == [line |-> i, id |-> id, success |-> FALSE]

\* the success Response executeCommand returns for a command
successResponse(i, id) == [line |-> i, id |-> id, success |-> TRUE]

\* ------------------------------------------------------- BrowserManager

\* isLaunched()
isLaunched(st) == st.browser # Null

\* getPage() throws when there is no page.
getPageThrows(st) == st.page = Null

\* close(): the first await it reaches from its from-th `if` on, and the
\* handle that is closed there; "closed" when nothing is left to close.
CloseStep(st, from) ==
  IF from <= 1 /\ st.page # Null THEN [pc |-> "closePage", h |-> st.page]
  ELSE IF from <= 2 /\ st.context # Null
    THEN [pc |-> "closeContext", h |-> st.context]
  ELSE IF st.browser # Null THEN [pc |-> "closeBrowser", h |-> st.browser]
  ELSE [pc |-> "closed", h |-> Null]

\* --------------------------------------------------- the daemon's events

Alive == ppc[D] = "listening"

\* The mutable state that the code of one event reads and writes.
M ==
  [state |-> state, live |-> live, launches |-> launches,
   shuttingDown |-> shuttingDown, timer |-> timer, tasks |-> tasks,
   buffer |-> buffer, decoded |-> decoded, written |-> written,
   ppc |-> ppc, sockFile |-> sockFile, pidFile |-> pidFile,
   autoLaunches |-> autoLaunches, armed |-> armed, sigRuns |-> sigRuns,
   cleanups |-> cleanups, trigger |-> trigger, log |-> log, begun |-> begun,
   rejects |-> rejects]

Commit(m) ==
  /\ state' = m.state
  /\ live' = m.live
  /\ launches' = m.launches
  /\ shuttingDown' = m.shuttingDown
  /\ timer' = m.timer
  /\ tasks' = m.tasks
  /\ buffer' = m.buffer
  /\ decoded' = m.decoded
  /\ written' = m.written
  /\ ppc' = m.ppc
  /\ sockFile' = m.sockFile
  /\ pidFile' = m.pidFile
  /\ autoLaunches' = m.autoLaunches
  /\ armed' = m.armed
  /\ sigRuns' = m.sigRuns
  /\ cleanups' = m.cleanups
  /\ trigger' = m.trigger
  /\ log' = m.log
  /\ begun' = m.begun
  /\ rejects' = m.rejects

\* A suspended async call: the data handler of connection conn at line
\* number line (command cmd), or shutdown() (conn 0).  pc names the awaited
\* call, h the handle it was made on, ctx what the awaiting code is:
\* "auto" (daemon.ts:91), "launch", "close", "exec" (executeCommand),
\* "signal" (shutdown).
Task(c, i, cmd, pc, ctx, h) ==
  [conn |-> c, line |-> i, cmd |-> cmd, pc |-> pc, ctx |-> ctx, h |-> h]

NoCmd == [id |-> "none", action |-> "none"]

Suspend(m, t) == [m EXCEPT !.tasks = @ \cup {t}]

\* socket.write(serializeResponse(resp) + '\n')
write(m, c, resp) == [m EXCEPT !.written[c] = Append(@, resp)]

LogEvent(l, e) ==
  IF \E k \in 1..Len(l) : l[k] = e THEN l ELSE Append(l, e)

\* The browser has been closed by the close() that a close command or a
\* signal called: the resource is released.
Released(m, t) ==
  IF t.ctx \in {"close", "signal"}
    THEN [m EXCEPT !.log = LogEvent(@, "release")]
    ELSE m

\* process.exit(0) alone: the server is not closed and the files stay.
TerminateKeepFiles(m) ==
  [m EXCEPT !.log = LogEvent(@, "exit0"),
            !.ppc[D] = "exit0",
            !.cleanups = @ + 1,
            !.timer = "none",
            !.tasks = {}]

\* server.close(); cleanupSocket(); process.exit(0)  (lines 102-104, 142-144)
Terminate(m) ==
  LET f == cleanupSocket([sock |-> m.sockFile, pid |-> m.pidFile]) IN
    [m EXCEPT !.log = LogEvent(LogEvent(LogEvent(@, "stopAccept"),
                                        "cleanup"), "exit0"),
              !.sockFile = f.sock,
              !.pidFile = f.pid,
              !.ppc[D] = "exit0",
              !.cleanups = @ + 1,
              !.timer = "none",
              !.tasks = {}]

\* The guard of line 99 left out: every close command schedules a timer.
MayScheduleAlways(flag) == TRUE

\* daemon.ts:99: the close command schedules the shutdown unless one is
\* under way.
MaySchedule(flag) == ~flag

\* Lines 97-107: the close command's response, the grace timer, return.
AfterClose(m, c, i, cmd) ==
  LET m1 == write(m, c, successResponse(i, cmd.id)) IN
    IF MaySchedule(m1.shuttingDown)
      THEN [m1 EXCEPT !.shuttingDown = TRUE,
                      !.timer = "armed",
                      !.armed = @ + 1,
                      !.trigger = <<c, i>>]
      ELSE m1

\* Lines 99-106 moved before the await of line 96: the timer is scheduled
\* before the close command is executed and answered.
CloseCommandTimerFirst(m, c, i, cmd) ==
  LET m1 == IF MaySchedule(m.shuttingDown)
              THEN [m EXCEPT !.begun = @ \cup {<<c, i>>},
                             !.shuttingDown = TRUE,
                             !.timer = "armed",
                             !.armed = @ + 1,
                             !.trigger = <<c, i>>]
              ELSE [m EXCEPT !.begun = @ \cup {<<c, i>>}]
      s == CloseStep(m.state, 1)
  IN IF s.pc = "closed"
       THEN write(m1, c, successResponse(i, cmd.id))
       ELSE Suspend(m1, Task(c, i, cmd, s.pc, "close", s.h))

\* Lines 95-96: the close command; executeCommand calls browser.close() for
\* it (spec 4.2: "execute the release of the resource").
CloseCommand(m, c, i, cmd) ==
  LET m1 == [m EXCEPT !.begun = @ \cup {<<c, i>>}]
      s == CloseStep(m.state, 1)
  IN IF s.pc = "closed"
       THEN AfterClose(m1, c, i, cmd)
       ELSE Suspend(m1, Task(c, i, cmd, s.pc, "close", s.h))

\* `buffer = data.toString()`: the buffered partial frame is dropped.
replaceData(buf, data) == data

\* Line 70: buffer += data.toString()
appendData(buf, data) == buf \o data

RECURSIVE Loop(_, _)
RECURSIVE Execute(_, _, _, _)

\* `return` in the place of the `continue` of line 86: the handler gives up
\* the lines that follow a malformed one.
DecodeFailedReturn(m, c, i, id) == write(m, c, errorResponse(i, id))

\* Lines 83-87: a line that parseCommand rejects is answered with an error
\* and the loop goes on.
DecodeFailed(m, c, i, id) == Loop(write(m, c, errorResponse(i, id)), c)

\* Lines 89-92: the auto-launch guard, then the command.  launch() finds
\* state.browser null here and goes straight to launcher.launch().
Dispatch(m, c, i, cmd) ==
  IF ~isLaunched(m.state) /\ cmd.action # "launch" /\ cmd.action # "close"
    THEN Suspend([m EXCEPT !.autoLaunches = @ + 1],
                 Task(c, i, cmd, "launchBrowser", "auto", Null))
    ELSE Execute(m, c, i, cmd)

\* Lines 94-111: the close command, or executeCommand(command, browser), up
\* to the first await on the browser.
Execute(m, c, i, cmd) ==
  IF cmd.action = "close" THEN CloseCommand(m, c, i, cmd)
  ELSE IF cmd.action = "launch"
    THEN IF m.state.browser # Null
           THEN LET s == CloseStep(m.state, 1) IN
                  Suspend(m, Task(c, i, cmd, s.pc, "launch", s.h))
           ELSE Suspend(m, Task(c, i, cmd, "launchBrowser", "launch", Null))
  ELSE IF m.state.page = Null
    THEN Loop(write(m, c, errorResponse(i, cmd.id)), c)
    ELSE Suspend(m, Task(c, i, cmd, "exec", "exec", m.state.page))

\* Lines 73-116: the while loop of the data handler, up to its first await
\* or the end of the complete lines.
Loop(m, c) ==
  IF ~includesNewline(m.buffer[c]) THEN m
  ELSE
    LET newlineIdx == indexOfNewline(m.buffer[c])
        line == SubSeq(m.buffer[c], 1, newlineIdx - 1)
        rest == SubSeq(m.buffer[c], newlineIdx + 1, Len(m.buffer[c]))
        m1 == [m EXCEPT !.buffer[c] = rest]
    IN IF trim(line) = <<>> THEN Loop(m1, c)
       ELSE
         LET m2 == [m1 EXCEPT !.decoded[c] = Append(@, line)]
             i == Len(m2.decoded[c])
             parseResult == parseCommand(line)
         IN IF ~parseResult.success
              THEN DecodeFailed(m2, c, i, parseResult.id)
              ELSE Dispatch(m2, c, i,
                     [id |-> parseResult.id, action |-> parseResult.action])

\* A rejected launch() inside the handler: the catch of lines 112-115 for
\* the auto-launch, executeCommand's failure Response for a launch command.
Thrown(m, t) ==
  IF t.ctx = "auto"
    THEN Loop(write(m, t.conn, errorResponse(t.line, "error")), t.conn)
    ELSE Loop(write(m, t.conn, errorResponse(t.line, t.cmd.id)), t.conn)

\* launch() has returned to its caller.
Launched(m, t) ==
  IF t.ctx = "auto"
    THEN Execute(m, t.conn, t.line, t.cmd)
    ELSE Loop(write(m, t.conn, successResponse(t.line, t.cmd.id)), t.conn)

\* close() has returned to its caller.
Closed(m, t) ==
  IF t.ctx = "close" THEN AfterClose(m, t.conn, t.line, t.cmd)
  ELSE IF t.ctx = "launch"
    THEN Suspend(m, [t EXCEPT !.pc = "launchBrowser", !.h = Null])
  ELSE Terminate(m)

\* m without task t, which is being resumed.
Resume(m, t) == [m EXCEPT !.tasks = @ \ {t}]

\* close() goes on from its from-th `if`.
CloseOn(m, t, from) ==
  LET s == CloseStep(m.state, from) IN
    IF s.pc = "closed" THEN Closed(m, t)
    ELSE Suspend(m, [t EXCEPT !.pc = s.pc, !.h = s.h])

\* The byte streams a client may send.
Streams ==
  { <<"n", "1", "\n", "n", "2", "\n">>,
    <<"c", "1", "\n", "n", "2", "\n">>,
    <<"n", "1", "\n", "c", "2", "\n">>,
    <<" ", "\n", "l", "1", "\n", "n">>,
    <<"x", "\n", " ", "n", "1", "\n">>,
    <<"c", "1", "\n">> }

\* Every connection past the first sends one command.
ShortStreams ==
  { <<"c", "1", "\n">>, <<"n", "1", "\n">>, <<"l", "1", "\n">> }

StreamsOf(c) == IF c = 1 THEN Streams ELSE ShortStreams

\* The daemon D has started alone and listens; its clients are connected
\* and have sent nothing yet.
Init ==
  /\ ppc = [p \in Procs |-> IF p = D THEN "listening" ELSE "init"]
  /\ sockFile = D
  /\ pidFile = D
  /\ touched = [p \in Procs |-> FALSE]
  /\ stream \in [Conns -> Streams \cup ShortStreams]
  /\ \A c \in Conns : stream[c] \in StreamsOf(c)
  /\ DaemonInit
  /\ query = NoQuery

Frame == UNCHANGED <<touched, stream, sent, sigIgnored, split, sockErr, query>>

\* Whether a chunk ends inside a frame: after the last newline it holds
\* more than whitespace.
MidFrame(data) ==
  \E k \in 1..Len(data) :
    /\ data[k] \notin {" ", "\n"}
    /\ \A j \in k..Len(data) : data[j] # "\n"

\* Lines 69-117: a 'data' event delivers the next bytes of connection c,
\* any number of those not yet delivered.
Data(c) ==
  /\ Alive
  /\ c \notin sockErr
  /\ \E k \in 1..(Len(stream[c]) - sent[c]) :
       /\ sent' = [sent EXCEPT ![c] = @ + k]
       /\ LET data == SubSeq(stream[c], sent[c] + 1, sent[c] + k) IN
            /\ Commit(Loop([M EXCEPT !.buffer[c] = appendData(@, data)], c))
            /\ split' = (split \/ (sent[c] + k < Len(stream[c])
                                    /\ MidFrame(data)))
  /\ UNCHANGED <<touched, stream, sigIgnored, sockErr, query>>

\* browser.ts:63: launcher.launch() resolves; newContext() is called.
LaunchResolved ==
  \E t \in tasks :
    /\ Alive /\ t.pc = "launchBrowser"
    /\ LET b == launches + 1
           m == [Resume(M, t) EXCEPT !.launches = b,
                                     !.live = @ \cup {b},
                                     !.state.browser = b]
       IN Commit(Suspend(m, [t EXCEPT !.pc = "newContext", !.h = b]))
    /\ Frame

\* browser.ts:63: launcher.launch() rejects.
LaunchRejected ==
  \E t \in tasks :
    /\ Alive /\ t.pc = "launchBrowser"
    /\ rejects < MaxRejects
    /\ Commit(Thrown([Resume(M, t) EXCEPT !.rejects = @ + 1], t))
    /\ Frame

\* browser.ts:68: newContext() resolves; newPage() is called.
ContextResolved ==
  \E t \in tasks :
    /\ Alive /\ t.pc = "newContext"
    /\ t.h \in live
    /\ LET m == [Resume(M, t) EXCEPT !.state.context = t.h] IN
         Commit(Suspend(m, [t EXCEPT !.pc = "newPage"]))
    /\ Frame

\* browser.ts:73: newPage() resolves; launch() returns.
PageResolved ==
  \E t \in tasks :
    /\ Alive /\ t.pc = "newPage"
    /\ t.h \in live
    /\ Commit(Launched([Resume(M, t) EXCEPT !.state.page = t.h], t))
    /\ Frame

\* browser.ts:68, 73: newContext() or newPage() rejects: always when the
\* browser has been closed meanwhile, else on the environment's choice.
ContextOrPageRejected ==
  \E t \in tasks :
    /\ Alive /\ t.pc \in {"newContext", "newPage"}
    /\ \/ t.h \notin live /\ Commit(Thrown(Resume(M, t), t))
       \/ /\ t.h \in live /\ rejects < MaxRejects
          /\ Commit(Thrown([Resume(M, t) EXCEPT !.rejects = @ + 1], t))
    /\ Frame

\* browser.ts:81-82: page.close() settles.
PageClosed ==
  \E t \in tasks :
    /\ Alive /\ t.pc = "closePage"
    /\ Commit(CloseOn([Resume(M, t) EXCEPT !.state.page = Null], t, 2))
    /\ Frame

\* browser.ts:86-87: context.close() settles.
ContextClosed ==
  \E t \in tasks :
    /\ Alive /\ t.pc = "closeContext"
    /\ Commit(CloseOn([Resume(M, t) EXCEPT !.state.context = Null], t, 3))
    /\ Frame

\* browser.ts:91-92: browser.close() settles; close() returns.
BrowserClosed ==
  \E t \in tasks :
    /\ Alive /\ t.pc = "closeBrowser"
    /\ Commit(Closed(Released([Resume(M, t) EXCEPT !.state.browser = Null,
                                                   !.live = @ \ {t.h}], t),
                     t))
    /\ Frame

\* executeCommand: the action on the page succeeds.
ExecResolved ==
  \E t \in tasks :
    /\ Alive /\ t.pc = "exec"
    /\ t.h \in live
    /\ Commit(Loop(write(Resume(M, t), t.conn,
                         successResponse(t.line, t.cmd.id)), t.conn))
    /\ Frame

\* executeCommand: the action on the page fails: always when its browser
\* has been closed meanwhile, else on the environment's choice.
ExecRejected ==
  \E t \in tasks :
    /\ Alive /\ t.pc = "exec"
    /\ \/ /\ t.h \notin live
          /\ Commit(Loop(write(Resume(M, t), t.conn,
                               errorResponse(t.line, t.cmd.id)), t.conn))
       \/ /\ t.h \in live /\ rejects < MaxRejects
          /\ Commit(Loop(write([Resume(M, t) EXCEPT !.rejects = @ + 1], t.conn,
                               errorResponse(t.line, t.cmd.id)), t.conn))
    /\ Frame

\* No 'error' listener on the socket: Node throws the unhandled 'error'
\* event and the process dies of it.
onSocketErrorUnhandled(m, c) ==
  [m EXCEPT !.ppc[D] = "crashed", !.timer = "none", !.tasks = {}]

\* Lines 119-121: the socket's 'error' listener ignores the error.
onSocketError(m, c) == m

\* The socket of connection c fails (the client has disconnected or reset
\* the connection) before all the client's bytes have arrived: no more data
\* arrives on it; the handler invocations that are suspended go on, and
\* what they write is lost.
SocketError(c) ==
  /\ Alive
  /\ c \notin sockErr
  /\ sent[c] < Len(stream[c])
  /\ sockErr' = sockErr \cup {c}
  /\ Commit(onSocketError(M, c))
  /\ UNCHANGED <<touched, stream, sent, sigIgnored, split, query>>

\* shutdown() without `await browser.close()`.
shutdownNoAwait(m) ==
  IF m.shuttingDown THEN m
  ELSE Terminate([m EXCEPT !.shuttingDown = TRUE, !.sigRuns = @ + 1])

\* Lines 138-145: shutdown(), on SIGINT or SIGTERM.
shutdown(m) ==
  IF m.shuttingDown THEN m
  ELSE LET m1 == [m EXCEPT !.shuttingDown = TRUE, !.sigRuns = @ + 1]
           s == CloseStep(m1.state, 1)
       IN IF s.pc = "closed" THEN Terminate(m1)
          ELSE Suspend(m1, Task(0, 0, NoCmd, s.pc, "signal", s.h))

Signal ==
  /\ Alive
  /\ sigIgnored' = (sigIgnored \/ shuttingDown)
  /\ Commit(shutdown(M))
  /\ UNCHANGED <<touched, stream, sent, split, sockErr, query>>

\* Lines 101-105: the grace timer fires.
TimerFired ==
  /\ Alive
  /\ timer = "armed"
  /\ Commit(Terminate(M))
  /\ Frame

Next ==
  \/ \E c \in Conns : Data(c)
  \/ \E c \in Conns : SocketError(c)
  \/ LaunchResolved
  \/ LaunchRejected
  \/ ContextResolved
  \/ PageResolved
  \/ ContextOrPageRejected
  \/ PageClosed
  \/ ContextClosed
  \/ BrowserClosed
  \/ ExecResolved
  \/ ExecRejected
  \/ Signal
  \/ TimerFired

Spec == Init /\ [][Next]_vars

\* Node runs the callback of a timer once its delay has passed: no handler
\* of the daemon blocks the event loop, so an armed grace timer fires.
SpecLive == Spec /\ WF_vars(TimerFired)

\* ================================================================ claims

\* ---- startDaemon against a running daemon (SpecStart)

Listening == {p \in Procs : ppc[p] = "listening"}

\* C1 (as claimed): a start attempt made while another daemon listens never
\* reaches LISTENING: at no time are two daemon processes both listening
\* for the socket path.
C1_AtMostOneListener == Cardinality(Listening) <= 1

\* C2 (as claimed): a start attempt that ended in a bind failure (exit 1)
\* has in none of its steps removed or overwritten the socket file or the
\* Instance Marker of a live, listening daemon.
C2_FailedStartTouchesNothing ==
  \A p \in Procs : ppc[p] = "exit1" => ~touched[p]

\* C11: a call of isDaemonRunning() during which no other process acts
\* returns false when the marker is absent; returns false and leaves neither
\* marker nor socket file when the marker records a process that no longer
\* exists; returns true and removes nothing when it records a live process.
C11_IsRunningContract ==
  (query.pc = "done" /\ query.alone) =>
    /\ query.pre = "absent" => query.ret = "false" /\ Files = query.files
    /\ query.pre = "stale" =>
         query.ret = "false" /\ sockFile = Null /\ pidFile = Null
    /\ query.pre = "live" => query.ret = "true" /\ Files = query.files

\* The daemon was killed out-of-band, its files stayed behind, and the
\* query has removed both and reported not-running.
C11_Witness ==
  /\ query.pc = "done" /\ query.alone /\ query.pre = "stale"
  /\ query.files.sock # Null /\ query.files.pid # Null
  /\ ppc[query.files.pid] = "killed"
  /\ query.ret = "false" /\ sockFile = Null /\ pidFile = Null

\* C17 (as claimed): the Instance Marker never records the pid of a process
\* whose bind has not succeeded: startDaemon writes it only after the bind.
C17_MarkerOnlyAfterBind ==
  pidFile # Null => ppc[pidFile] \in {"listening", "killed"}

\* ---- one daemon and its connections (Spec)

HasResponse(c, i) == \E k \in 1..Len(written[c]) : written[c][k].line = i

\* C3 (as claimed): on every connection the k-th response written answers
\* the k-th non-blank line received, however the bytes were divided.
C3_ResponsesInOrder ==
  \A c \in Conns : \A k \in 1..Len(written[c]) : written[c][k].line = k

TwoActions == <<"n", "1", "\n", "n", "2", "\n">>

\* C4 (as claimed): two action commands sent back-to-back on one connection
\* of a fresh daemon (nothing else sent, no signal, no Playwright failure)
\* invoke the implicit acquisition once, in one chunk or in two.
C4_OneImplicitAcquisition ==
  ( /\ stream[1] = TwoActions
    /\ \A c \in Conns \ {1} : sent[c] = 0
    /\ rejects = 0
    /\ ~shuttingDown )
  => autoLaunches <= 1

Releasing == {"closePage", "closeContext", "closeBrowser"}
AcquiringOrExecuting == {"launchBrowser", "newContext", "newPage", "exec"}

\* C5 (as claimed): never is a release of the resource in progress for one
\* connection (or the signal handler) while an acquire or a command
\* execution is in progress for another connection.
C5_ReleaseExcludesUse ==
  \A t1, t2 \in tasks :
    ~ ( /\ t1.pc \in Releasing
        /\ t2.pc \in AcquiringOrExecuting
        /\ t2.conn # 0
        /\ t2.conn # t1.conn )

CloseThenAction == <<"c", "1", "\n", "n", "2", "\n">>

IsCloseLine(line) ==
  parseCommand(line).success /\ parseCommand(line).action = "close"

\* C6 (as claimed): when a client sends close and then another command on
\* its connection (nothing else is sent to the daemon and no signal comes),
\* the close response is written before the connection ends with the
\* process, and no command that follows a close command on the connection
\* receives a success response.
C6_NothingSucceedsAfterClose ==
  ( /\ stream[1] = CloseThenAction
    /\ \A c \in Conns \ {1} : sent[c] = 0
    /\ sigRuns = 0 )
  => /\ ppc[D] = "exit0" => HasResponse(1, 1)
     /\ \A k \in 1..Len(written[1]) :
          written[1][k].success =>
            \A j \in 1..(written[1][k].line - 1) :
              ~IsCloseLine(decoded[1][j])

\* C7: the shutdown is claimed by at most one trigger (one grace timer, or
\* one run of shutdown() past its guard) and the cleanup sequence
\* server.close / cleanupSocket / process.exit runs at most once, whatever
\* the interleaving of close commands and signals.
C7_ShutdownOnce ==
  /\ armed + sigRuns <= 1
  /\ cleanups <= 1

\* A close command scheduled the timer, a signal arrived during the grace
\* delay and returned, and the cleanup ran.
C7_Witness == armed = 1 /\ sigIgnored /\ cleanups = 1

\* C8 (as claimed): when the daemon has terminated, every close command
\* whose execution had begun has had its response written.
C8_EveryCloseAnswered ==
  ppc[D] = "exit0" => \A x \in begun : HasResponse(x[1], x[2])

\* C8 (amended): the close command that schedules the grace timer has had
\* its response written by then, hence before the timer terminates the
\* process.
C8_TriggerAnswered ==
  trigger # <<>> => HasResponse(trigger[1], trigger[2])

\* The timer of one close command has terminated the daemon while another
\* connection's close command was still being executed.
C8_Witness ==
  /\ ppc[D] = "exit0"
  /\ trigger # <<>>
  /\ \E x \in begun : ~HasResponse(x[1], x[2])

\* ---- frame assembly

Max(S) == CHOOSE x \in S : \A y \in S : y <= x

NewlinesOf(bytes) == {k \in 1..Len(bytes) : bytes[k] = "\n"}

\* The line that the newline at position k of bytes ends.
LineEndingAt(bytes, k) ==
  LET before == {j \in NewlinesOf(bytes) : j < k} IN
    SubSeq(bytes, (IF before = {} THEN 0 ELSE Max(before)) + 1, k - 1)

IsBlank(line) == \A j \in 1..Len(line) : line[j] = " "

RECURSIVE LinesUpTo(_, _)
LinesUpTo(bytes, n) ==
  IF n = 0 THEN <<>>
  ELSE IF bytes[n] = "\n" /\ ~IsBlank(LineEndingAt(bytes, n))
    THEN Append(LinesUpTo(bytes, n - 1), LineEndingAt(bytes, n))
    ELSE LinesUpTo(bytes, n - 1)

\* The non-blank complete lines of a byte stream, and what follows its
\* last newline: what the stream says, whatever its division into chunks.
ExpectedLines(bytes) == LinesUpTo(bytes, Len(bytes))
Fragment(bytes) ==
  SubSeq(bytes,
         (IF NewlinesOf(bytes) = {} THEN 0 ELSE Max(NewlinesOf(bytes))) + 1,
         Len(bytes))

IsPrefix(a, b) == Len(a) <= Len(b) /\ SubSeq(b, 1, Len(a)) = a

Received(c) == SubSeq(stream[c], 1, sent[c])

NoCloseIn(c) == \A k \in 1..Len(stream[c]) : stream[c][k] # "c"

Quiescent(c) == \A t \in tasks : t.conn # c

Malformed(c, j) == ~parseCommand(decoded[c][j]).success

ResponsesTo(c, j) == {k \in 1..Len(written[c]) : written[c][k].line = j}

OnlyMalformedSoFar ==
  \A c \in Conns : \A j \in 1..Len(decoded[c]) : Malformed(c, j)

\* C12: a line that fails decoding has, from the moment it is decoded,
\* exactly one response, an error with the fallback id; no acquisition,
\* execution, release or shutdown is ever made for it; the lines after it
\* are processed (the handler does not stop at it); and a daemon that has
\* so far decoded nothing but malformed lines, and got no signal, has not
\* acquired, executed or shut down anything.
C12_DecodeFailureIsLocal ==
  /\ \A c \in Conns :
       /\ \A j \in 1..Len(decoded[c]) :
            Malformed(c, j) =>
              /\ Cardinality(ResponsesTo(c, j)) = 1
              /\ \A k \in ResponsesTo(c, j) :
                   written[c][k] = errorResponse(j, "unknown")
              /\ \A t \in tasks : ~(t.conn = c /\ t.line = j)
              /\ <<c, j>> \notin begun
              /\ trigger # <<c, j>>
       /\ (Alive /\ decoded[c] # <<>> /\ Malformed(c, Len(decoded[c])))
            => ~includesNewline(buffer[c])
  /\ (OnlyMalformedSoFar /\ sigRuns = 0) =>
       /\ Alive /\ ~shuttingDown /\ timer = "none"
       /\ state = NoBrowser /\ launches = 0 /\ autoLaunches = 0
       /\ tasks = {}

\* A malformed line got its error response, and the command on the next
\* line of the connection was executed and answered.
C12_Witness ==
  /\ stream[1] = <<"x", "\n", " ", "n", "1", "\n">>
  /\ Len(decoded[1]) = 2 /\ Malformed(1, 1)
  /\ written[1] = <<errorResponse(1, "unknown"), successResponse(2, "1")>>

\* C13 (as claimed): every response to a successfully decoded command is
\* the only response to it and carries the command's own id, also when the
\* implicit acquisition fails or the execution throws.
C13_ResponseCarriesCommandId ==
  \A c \in Conns : \A k \in 1..Len(written[c]) :
    LET j == written[c][k].line
        parseResult == parseCommand(decoded[c][j])
    IN parseResult.success =>
         /\ Cardinality(ResponsesTo(c, j)) = 1
         /\ written[c][k].id = parseResult.id

NoCloseDecoded(c) ==
  \A j \in 1..Len(decoded[c]) : ~IsCloseLine(decoded[c][j])

\* C14: the daemon leaves LISTENING only by exit(0), and only after a close
\* command was processed and scheduled the grace timer or a signal started
\* shutdown(); with no close command begun and no signal it is listening
\* and not shutting down, whatever malformed lines, acquisition failures,
\* execution failures and socket errors there have been; and while it
\* listens every connection that has decoded no close command is served:
\* once its handlers have run to their end each of its complete lines has
\* been decoded and answered.
C14_OnlyShutdownTerminates ==
  /\ ppc[D] \in {"listening", "exit0"}
  /\ ppc[D] = "exit0" =>
       \/ sigRuns = 1
       \/ /\ armed = 1 /\ trigger # <<>>
          /\ IsCloseLine(decoded[trigger[1]][trigger[2]])
  /\ (begun = {} /\ sigRuns = 0) =>
       Alive /\ ~shuttingDown /\ timer = "none"
  /\ \A c \in Conns :
       (Alive /\ Quiescent(c) /\ NoCloseDecoded(c)) =>
         /\ ~includesNewline(buffer[c])
         /\ \A j \in 1..Len(decoded[c]) : HasResponse(c, j)

\* Connection 1 sent a malformed line and then its socket failed, the
\* implicit acquisition for the command of connection 2 failed and was
\* answered with an error, and the daemon listens on.
C14_Witness ==
  /\ Alive /\ ~shuttingDown /\ tasks = {}
  /\ written[1] = <<errorResponse(1, "unknown")>>
  /\ 1 \in sockErr /\ Len(decoded[1]) = 1 /\ Malformed(1, 1)
  /\ rejects = 1
  /\ written[2] = <<errorResponse(1, "error")>>

\* ---- in-flight commands and the resource

TasksOf(c) == {t \in tasks : t.conn = c}

\* C16 (as claimed): on one connection at most one command is in flight:
\* never are two handler invocations of a connection suspended at once.
C16_OneCommandInFlight ==
  \A c \in Conns : Cardinality(TasksOf(c)) <= 1

\* C18 (as claimed): when the daemon has exited with status 0 no browser is
\* live: every browser launched has been closed.
C18_NoLiveResourceAtExit ==
  ppc[D] = "exit0" => live = {}

\* C19 (as claimed): every browser that is launched and not closed is the
\* one BrowserManager's state refers to, so at most one is live.
C19_LiveBrowserIsReferenced ==
  /\ live \subseteq {state.browser}
  /\ Cardinality(live) <= 1

LaunchOrCloseInProgress ==
  \E t \in tasks :
    t.pc \in {"launchBrowser", "newContext", "newPage",
              "closePage", "closeContext", "closeBrowser"}

\* C20 (as claimed): while no launch or close call is in progress, browser,
\* context and page are all absent or all present, and isLaunched() is true
\* exactly when getPage() does not throw.
C20_AllOrNothing ==
  ~LaunchOrCloseInProgress =>
    /\ \/ state = NoBrowser
       \/ state.browser # Null /\ state.context # Null /\ state.page # Null
    /\ isLaunched(state) <=> ~getPageThrows(state)

\* ---- the order of the shutdown

CloseProcessed ==
  /\ armed = 1
  /\ trigger # <<>>
  /\ HasResponse(trigger[1], trigger[2])

CleanExit ==
  /\ ppc[D] = "exit0"
  /\ sockFile = Null /\ pidFile = Null
  /\ \E k \in 1..Len(log) : log[k] = "stopAccept"

\* C15: once a close command has been processed with no shutdown under
\* way (its response is written and the grace timer scheduled), the daemon
\* eventually has stopped accepting, removed the socket file and the
\* Instance Marker, and exited with status 0.
C15_CloseLeadsToExit == CloseProcessed ~> CleanExit

\* The grace timer of a close command has ended the daemon, with no signal.
C15_Witness == CleanExit /\ armed = 1 /\ sigRuns = 0 /\ ~sigIgnored

====
